---------------------------- MODULE Spec2Model ----------------------------
(***************************************************************************)
(* Merkle-tree leaf key derivation (package merkletree) and the test       *)
(* operations manager (package operations).                                *)
(*                                                                         *)
(* Representation of Go values:                                            *)
(*   byte      a number in 0..255                                          *)
(*   []byte    a sequence of bytes, most significant first                 *)
(*   *big.Int  the big-endian bytes of the number without leading zeros    *)
(*   uint64    four 16-bit limbs << l3, l2, l1, l0 >>, most significant    *)
(*             first, so that 64-bit words keep their full width           *)
(*   [n]uint64 a sequence of n such words                                  *)
(*   error     a string naming the error, Nil for the nil error            *)
(***************************************************************************)
EXTENDS Integers, Sequences, FiniteSets, TLC

VARIABLES
    pc,             \* per goroutine: "idle", "keyEthAddr" (about to run keyEthAddr), "done"
    frame,          \* per goroutine: arguments, locals, oracle calls made, return value
    oracle,         \* poseidon.Hash as observed so far: input -> outcome
    stringToh4Calls,\* how many times stringToh4 has parsed the seed
    started,        \* how many calls of each derivation have been made
    mgr,            \* operations.Manager run: position, commands run, returned error
    apply           \* the running ApplyTxs call: arguments, locals, returned error

vars == << pc, frame, oracle, stringToh4Calls, started, mgr, apply >>

keyVars == << pc, frame, oracle, stringToh4Calls, started >>
opsVars == << mgr, apply >>

Nil == "nil"

-----------------------------------------------------------------------------
(* Bounds of the model *)

MaxCalls == 2       \* derivation calls over one behaviour
MaxTxs == 2         \* transactions handed to one ApplyTxs call
MaxBatch == 2       \* batch numbers 0..MaxBatch

\* the goroutines that call the derivations concurrently
Procs == { "g1", "g2" }

-----------------------------------------------------------------------------
(* uint64 words *)

\* a small constant as a uint64
U64(n) == << 0, 0, n \div 65536, n % 65536 >>

ZeroWord == U64(0)

\* [4]uint64{} : the zero value of a capacity / digest
ZeroH4 == << ZeroWord, ZeroWord, ZeroWord, ZeroWord >>

\* the 8 big-endian bytes of a uint64
WordBytes(w) ==
    << w[1] \div 256, w[1] % 256, w[2] \div 256, w[2] % 256,
       w[3] \div 256, w[3] % 256, w[4] \div 256, w[4] % 256 >>

-----------------------------------------------------------------------------
(* leaf types *)

leafTypeBalance == 0
leafTypeNonce == 1
leafTypeCode == 2
leafTypeStorage == 3

-----------------------------------------------------------------------------
(* big.Int and the field-element split *)

RECURSIVE SetBytes(_)
\* new(big.Int).SetBytes(b): the number whose big-endian bytes are b
SetBytes(b) ==
    IF b = << >> THEN << >>
    ELSE IF Head(b) = 0 THEN SetBytes(Tail(b))
    ELSE b

\* byte k (0 = least significant) of a big.Int, 0 beyond its length
ByteAt(bi, k) == IF k < Len(bi) THEN bi[Len(bi) - k] ELSE 0

\* scalar2fea: eight 32-bit chunks of the number, least significant chunk first:
\* val[i] = (value >> 32*i) & 0xFFFFFFFF
scalar2fea(bi) ==
    [ i \in 1..8 |->
        << 0, 0,
           ByteAt(bi, 4 * (i - 1) + 3) * 256 + ByteAt(bi, 4 * (i - 1) + 2),
           ByteAt(bi, 4 * (i - 1) + 1) * 256 + ByteAt(bi, 4 * (i - 1)) >> ]

-----------------------------------------------------------------------------
(* digest codec *)

HashPoseidonAllZeroes ==
    << "0", "x",
       "c", "7", "1", "6", "0", "3", "f", "3", "3", "a", "1", "1", "4", "4", "c", "a",
       "7", "9", "5", "3", "d", "b", "0", "a", "b", "4", "8", "8", "0", "8", "f", "4",
       "c", "4", "0", "5", "5", "e", "3", "3", "6", "4", "a", "2", "4", "6", "c", "3",
       "3", "c", "1", "8", "a", "9", "7", "8", "6", "c", "b", "0", "b", "3", "5", "9" >>

HexDigits ==
    << "0", "1", "2", "3", "4", "5", "6", "7", "8", "9", "a", "b", "c", "d", "e", "f" >>

IsHex(c) == \E i \in 1..16 : HexDigits[i] = c

HexVal(c) == (CHOOSE i \in 1..16 : HexDigits[i] = c) - 1

\* drop a leading "0x"
TrimHexPrefix(str) ==
    IF Len(str) >= 2 /\ str[1] = "0" /\ str[2] = "x"
    THEN SubSeq(str, 3, Len(str))
    ELSE str

\* the 16-bit limb written by four hex digits starting at position k of h
HexLimb(h, k) ==
    ((HexVal(h[k]) * 16 + HexVal(h[k + 1])) * 16 + HexVal(h[k + 2])) * 16 + HexVal(h[k + 3])

\* stringToh4: a 64-digit hex literal as four big-endian 64-bit words
stringToh4(str) ==
    LET h == TrimHexPrefix(str) IN
    IF Len(h) # 64 \/ \E k \in 1..Len(h) : ~IsHex(h[k])
    THEN [ h4 |-> ZeroH4, err |-> "FormatError" ]
    ELSE [ h4 |-> [ w \in 1..4 |-> [ l \in 1..4 |-> HexLimb(h, 16 * (w - 1) + 4 * (l - 1) + 1) ] ],
           err |-> Nil ]

\* h4ToFilledByteSlice: the four words, each as 8 big-endian bytes
h4ToFilledByteSlice(h4) ==
    WordBytes(h4[1]) \o WordBytes(h4[2]) \o WordBytes(h4[3]) \o WordBytes(h4[4])

-----------------------------------------------------------------------------
(* inputs of the derivations *)

\* common.Address: 20 bytes; AddrOf(0) is the all-zero address
AddrOf(i) == [ k \in 1..20 |-> (i * k * 13) % 256 ]

Addresses == { AddrOf(0), AddrOf(1) }

\* b left-padded with zero bytes to n bytes
LeftPad(b, n) == [ k \in 1..n |-> IF k <= n - Len(b) THEN 0 ELSE b[k - (n - Len(b))] ]

\* storage positions as the caller passes them ([]byte of any length):
\* empty (0), 1 written on 32 bytes, and 33 bytes (2^256 + 1, wider than 256 bits)
StoragePositions ==
    { << >>,
      LeftPad(<< 1 >>, 32),
      << 1 >> \o LeftPad(<< 1 >>, 32) }

-----------------------------------------------------------------------------
(* poseidon.Hash, an external primitive: a deterministic function of            *)
(* (input, capacity) whose value is fixed the first time an input is hashed.   *)

DigestOf(i) ==
    << << i, 256 * i + 1, 65535 - i, (4369 * i) % 65536 >>,
       << 65535, i, 0, 255 + i >>,
       << 0, 0, 0, i >>,
       << 32768 + i, 1, 2, 3 >> >>

Digests == { DigestOf(1), DigestOf(2) }

HashErrors == { "errHashA", "errHashB" }

\* the words the seed HashPoseidonAllZeroes spells: the digest of the all-zero
\* input under the all-zero capacity
DefaultCapacityWords ==
    << << 50966, 1011, 14865, 17610 >>, << 31059, 56074, 46216, 2292 >>,
       << 50181, 24115, 25762, 18115 >>, << 15384, 43384, 27824, 45913 >> >>

\* the all-zero input: eight zero words hashed under the zero capacity
AllZeroesIn == [ input |-> [ i \in 1..8 |-> ZeroWord ], capacity |-> ZeroH4 ]

HashFailures == { [ h4 |-> ZeroH4, err |-> e ] : e \in HashErrors }

\* what a first hashing of in can give: the all-zero input hashes to the seed's words
HashOutcomes(in) ==
    IF in = AllZeroesIn
    THEN { [ h4 |-> DefaultCapacityWords, err |-> Nil ] } \cup HashFailures
    ELSE { [ h4 |-> d, err |-> Nil ] : d \in Digests } \cup HashFailures

\* the outcomes poseidon.Hash(in.input, in.capacity) can have in this state
poseidonHash(in) == IF in \in DOMAIN oracle THEN { oracle[in] } ELSE HashOutcomes(in)

\* the oracle after it answered in with out
Remember(in, out) == IF in \in DOMAIN oracle THEN oracle ELSE (in :> out) @@ oracle

-----------------------------------------------------------------------------
(* package merkletree: the key derivations *)

NoKey == << >>

Ops == { "balance", "nonce", "code", "storage" }

\* derivation calls made so far
TotalStarted == started["balance"] + started["nonce"] + started["code"] + started["storage"]

IdleFrame ==
    [ op |-> "none", ethAddr |-> AddrOf(0), storagePos |-> << >>,
      key1Capacity |-> ZeroH4, calls |-> << >>,
      ret |-> [ key |-> NoKey, err |-> Nil ] ]

\* key1 with the leaf type written one slot early (slot 5 instead of slot 6)
key1OfTagInSlot5(ethAddrArr, leafType) ==
    << ethAddrArr[1], ethAddrArr[2], ethAddrArr[3], ethAddrArr[4], ethAddrArr[5],
       U64(leafType), ZeroWord, ZeroWord >>

\* key1 of keyEthAddr: [addr[0..4], 0, leafType, 0]
key1Of(ethAddrArr, leafType) ==
    << ethAddrArr[1], ethAddrArr[2], ethAddrArr[3], ethAddrArr[4], ethAddrArr[5],
       ZeroWord, U64(leafType), ZeroWord >>

\* what keyEthAddr returns for the outcome of its poseidon.Hash call
keyEthAddrReturn(out) ==
    IF out.err # Nil
    THEN [ key |-> NoKey, err |-> out.err ]
    ELSE [ key |-> h4ToFilledByteSlice(out.h4), err |-> Nil ]

\* the poseidon.Hash arguments of keyEthAddr(ethAddr, leafType, key1Capacity)
keyEthAddrHashArgs(ethAddr, leafType, key1Capacity) ==
    [ input |-> key1Of(scalar2fea(SetBytes(ethAddr)), leafType),
      capacity |-> key1Capacity ]

\* every derivation tagged as a balance leaf
LeafTypeOfAlwaysBalance(op) == leafTypeBalance

LeafTypeOf(op) ==
    CASE op = "balance" -> leafTypeBalance
      [] op = "nonce" -> leafTypeNonce
      [] op = "code" -> leafTypeCode
      [] op = "storage" -> leafTypeStorage

\* keyEthAddr reading the capacity from a buffer shared by the goroutines
\* (here: whatever another goroutine's call last put there)
keyEthAddrSharedCapacity(p) ==
    /\ pc[p] = "keyEthAddr"
    /\ LET f == frame[p]
           q == CHOOSE g \in Procs : g # p
           in == keyEthAddrHashArgs(f.ethAddr, LeafTypeOf(f.op), frame[q].key1Capacity)
       IN \E out \in poseidonHash(in) :
            /\ oracle' = Remember(in, out)
            /\ frame' = [ frame EXCEPT ![p] =
                            [ f EXCEPT !.calls = Append(f.calls, [ in |-> in, out |-> out ]),
                                       !.ret = keyEthAddrReturn(out) ] ]
            /\ pc' = [ pc EXCEPT ![p] = "done" ]
    /\ UNCHANGED << stringToh4Calls, started, opsVars >>

\* keyEthAddr(ethAddr, leafType, key1Capacity), called last by every derivation
keyEthAddr(p) ==
    /\ pc[p] = "keyEthAddr"
    /\ LET f == frame[p]
           in == keyEthAddrHashArgs(f.ethAddr, LeafTypeOf(f.op), f.key1Capacity)
       IN \E out \in poseidonHash(in) :
            /\ oracle' = Remember(in, out)
            /\ frame' = [ frame EXCEPT ![p] =
                            [ f EXCEPT !.calls = Append(f.calls, [ in |-> in, out |-> out ]),
                                       !.ret = keyEthAddrReturn(out) ] ]
            /\ pc' = [ pc EXCEPT ![p] = "done" ]
    /\ UNCHANGED << stringToh4Calls, started, opsVars >>

\* defaultCapIn: parses the seed with stringToh4
defaultCapIn == stringToh4(HashPoseidonAllZeroes)

\* the number of stringToh4 calls after one more defaultCapIn(), from n before
defaultCapInParses(n) == n + 1

\* KeyEthAddrBalance / KeyEthAddrNonce / KeyContractCode up to their call of keyEthAddr
EthAddrEntry(p, op, ethAddr) ==
    /\ pc[p] \in { "idle", "done" }
    /\ TotalStarted < MaxCalls
    /\ started' = [ started EXCEPT ![op] = @ + 1 ]
    /\ stringToh4Calls' = defaultCapInParses(stringToh4Calls)
    /\ LET capIn == defaultCapIn
           f == [ IdleFrame EXCEPT !.op = op, !.ethAddr = ethAddr ]
       IN IF capIn.err # Nil
          THEN /\ frame' = [ frame EXCEPT ![p] =
                               [ f EXCEPT !.ret = [ key |-> NoKey, err |-> capIn.err ] ] ]
               /\ pc' = [ pc EXCEPT ![p] = "done" ]
          ELSE /\ frame' = [ frame EXCEPT ![p] = [ f EXCEPT !.key1Capacity = capIn.h4 ] ]
               /\ pc' = [ pc EXCEPT ![p] = "keyEthAddr" ]
    /\ UNCHANGED << oracle, opsVars >>

KeyEthAddrBalance(p, ethAddr) == EthAddrEntry(p, "balance", ethAddr)

KeyEthAddrNonce(p, ethAddr) == EthAddrEntry(p, "nonce", ethAddr)

KeyContractCode(p, ethAddr) == EthAddrEntry(p, "code", ethAddr)

\* the first poseidon.Hash arguments of KeyContractStorage: (storageArr, [4]uint64{})
storageHashArgs(storagePos) ==
    [ input |-> scalar2fea(SetBytes(storagePos)), capacity |-> ZeroH4 ]

\* KeyContractStorage handing the default capacity instead of hk0 to keyEthAddr
storageAfterHk0DefaultCap(out) ==
    IF out.err # Nil
    THEN << "done", ZeroH4, [ key |-> NoKey, err |-> out.err ] >>
    ELSE << "keyEthAddr", defaultCapIn.h4, [ key |-> NoKey, err |-> Nil ] >>

\* KeyContractStorage without the err check after its first poseidon.Hash
storageAfterHk0Unchecked(out) ==
    << "keyEthAddr", out.h4, [ key |-> NoKey, err |-> Nil ] >>

\* KeyContractStorage after its first poseidon.Hash answered out:
\* << next pc, key1Capacity handed to keyEthAddr, value returned so far >>
storageAfterHk0(out) ==
    IF out.err # Nil
    THEN << "done", ZeroH4, [ key |-> NoKey, err |-> out.err ] >>
    ELSE << "keyEthAddr", out.h4, [ key |-> NoKey, err |-> Nil ] >>

\* KeyContractStorage up to its call of keyEthAddr
KeyContractStorage(p, ethAddr, storagePos) ==
    /\ pc[p] \in { "idle", "done" }
    /\ TotalStarted < MaxCalls
    /\ started' = [ started EXCEPT !["storage"] = @ + 1 ]
    /\ LET in == storageHashArgs(storagePos)
           f == [ IdleFrame EXCEPT !.op = "storage", !.ethAddr = ethAddr,
                                   !.storagePos = storagePos ]
       IN \E out \in poseidonHash(in) :
            LET nxt == storageAfterHk0(out) IN
            /\ oracle' = Remember(in, out)
            /\ frame' = [ frame EXCEPT ![p] =
                            [ f EXCEPT !.calls = << [ in |-> in, out |-> out ] >>,
                                       !.key1Capacity = nxt[2],
                                       !.ret = nxt[3] ] ]
            /\ pc' = [ pc EXCEPT ![p] = nxt[1] ]
    /\ UNCHANGED << stringToh4Calls, opsVars >>

KeyInit ==
    /\ pc = [ p \in Procs |-> "idle" ]
    /\ frame = [ p \in Procs |-> IdleFrame ]
    /\ oracle = << >>
    /\ stringToh4Calls = 0
    /\ started = [ op \in Ops |-> 0 ]

-----------------------------------------------------------------------------
(* package operations: Manager.Setup *)

\* runCmd(exec.Command(makeCmd, target)): the command runs and exits zero or not
runCmd(target) == { [ cmds |-> << target >>, err |-> Nil ],
                    [ cmds |-> << target >>, err |-> "errExit:" \o target ] }

\* m.wait.Poll(interval, deadline, condition) as its callers see it: it returns nil
\* once the condition held, the condition's error, or ErrTimeoutReached
waitPoll(what) == { [ cmds |-> << "poll " \o what >>, err |-> e ] :
                        e \in { Nil, "ErrTimeoutReached", "errCondition" } }

\* the outcomes of running first and then, if first succeeded, one of rest
Then(first, rest) ==
    { o \in first : o.err # Nil }
        \cup { [ cmds |-> a.cmds \o b.cmds, err |-> b.err ] :
                    a \in { o \in first : o.err = Nil }, b \in rest }

\* startNetwork / startCore / startProver: stop, run, wait until ready
startContainer(what) ==
    Then(runCmd("stop-" \o what), Then(runCmd("run-" \o what), waitPoll(what)))

startNetwork == startContainer("network")

startProver == startContainer("prover")

startCore == startContainer("core")

\* one L1 transaction of setUpSequencer: sent and mined, or failing
l1Tx(what) == { [ cmds |-> << "l1 " \o what >>, err |-> Nil ],
                [ cmds |-> << >>, err |-> "errSend:" \o what ],
                [ cmds |-> << "l1 " \o what >>, err |-> "errNotMined:" \o what ] }

\* reading the sequencer's matic balance and comparing it with the amount sent
checkBalance == { [ cmds |-> << >>, err |-> e ] : e \in { Nil, "errBalanceMismatch" } }

\* setUpSequencer: fund the sequencer with ether and matic, approve, register
setUpSequencer ==
    Then({ [ cmds |-> << >>, err |-> e ] : e \in { Nil, "errDialL1" } },
    Then(l1Tx("transfer ether"),
    Then(l1Tx("transfer matic"),
    Then(checkBalance,
    Then(l1Tx("approve matic"), l1Tx("register sequencer"))))))

\* setSequencerChainID: one UPDATE on state.sequencer
setSequencerChainID ==
    { [ cmds |-> << >>, err |-> "errDB" ], [ cmds |-> << "db set chain id" >>, err |-> Nil ] }

SetupOrder ==
    << "startNetwork", "startProver", "setUpSequencer", "startCore", "setSequencerChainID" >>

StepOutcomes(step) ==
    CASE step = "startNetwork" -> startNetwork
      [] step = "startProver" -> startProver
      [] step = "setUpSequencer" -> setUpSequencer
      [] step = "startCore" -> startCore
      [] step = "setSequencerChainID" -> setSequencerChainID

\* a Setup that starts the core whether or not setUpSequencer succeeded
SetupAfterIgnoringSequencerErr(step, err) ==
    IF step = "setUpSequencer" THEN "startCore"
    ELSE IF err # Nil THEN "returned"
    ELSE CASE step = "startNetwork" -> "startProver"
           [] step = "startProver" -> "setUpSequencer"
           [] step = "startCore" -> "setSequencerChainID"
           [] step = "setSequencerChainID" -> "returned"

\* Setup: where it goes after step returned err
SetupAfter(step, err) ==
    IF err # Nil THEN "returned"
    ELSE CASE step = "startNetwork" -> "startProver"
           [] step = "startProver" -> "setUpSequencer"
           [] step = "setUpSequencer" -> "startCore"
           [] step = "startCore" -> "setSequencerChainID"
           [] step = "setSequencerChainID" -> "returned"

NewManager ==
    [ pc |-> "startNetwork", steps |-> << >>, cmds |-> << >>, err |-> Nil,
      torn |-> FALSE, teardownErr |-> Nil ]

\* Setup running its step mgr.pc
SetupStep(step) ==
    /\ mgr.pc = step
    /\ \E o \in StepOutcomes(step) :
         LET to == SetupAfter(step, o.err) IN
         mgr' = [ mgr EXCEPT !.pc = to,
                             !.steps = Append(mgr.steps, [ name |-> step, err |-> o.err ]),
                             !.cmds = mgr.cmds \o o.cmds,
                             !.err = IF to = "returned" THEN o.err ELSE mgr.err ]
    /\ UNCHANGED << apply, keyVars >>

Setup_startNetwork == SetupStep("startNetwork")

Setup_startProver == SetupStep("startProver")

Setup_setUpSequencer == SetupStep("setUpSequencer")

Setup_startCore == SetupStep("startCore")

Setup_setSequencerChainID == SetupStep("setSequencerChainID")

-----------------------------------------------------------------------------
(* package operations: Teardown *)

stopCore == runCmd("stop-core")

stopProver == runCmd("stop-prover")

stopNetwork == runCmd("stop-network")

\* Teardown: stopCore, stopProver, stopNetwork, returning at the first error
TeardownOutcomes == Then(stopCore, Then(stopProver, stopNetwork))

\* Teardown(), called by the test before it calls Setup or after Setup returned,
\* and not while ApplyTxs runs (one call is followed)
Teardown ==
    /\ ~mgr.torn
    /\ mgr.steps = << >> \/ mgr.pc = "returned"
    /\ apply.pc \in { "idle", "returned" }
    /\ \E o \in TeardownOutcomes :
         mgr' = [ mgr EXCEPT !.cmds = mgr.cmds \o o.cmds,
                             !.torn = TRUE,
                             !.teardownErr = o.err ]
    /\ UNCHANGED << apply, keyVars >>

-----------------------------------------------------------------------------
(* package operations: Manager.ApplyTxs *)

\* tx.RawTx values: empty, not hex, hex that is no transaction, a transaction
RawTxs == { "", "0xzz", "0x00", "0xf86c" }

DecodeHexOk(raw) == raw # "0xzz"

UnmarshalBinaryOk(raw) == raw = "0xf86c"

\* vectors.Tx: the raw transaction and the S of its overwrite (non-empty: not sent)
Txs == { [ RawTx |-> r, OverwriteS |-> "" ] : r \in RawTxs }
            \cup { [ RawTx |-> "0xf86c", OverwriteS |-> "0x1" ] }

RECURSIVE TxLists(_)
\* the lists of at most n transactions
TxLists(n) ==
    IF n = 0 THEN { << >> }
    ELSE TxLists(n - 1)
            \cup { Append(l, t) : l \in { x \in TxLists(n - 1) : Len(x) = n - 1 }, t \in Txs }

Roots == { "", "root1", "root2" }

BatchNumbers == 0..MaxBatch

IdleApply ==
    [ pc |-> "idle", txs |-> << >>, initialRoot |-> "", finalRoot |-> "", i |-> 1,
      currentBatchNumber |-> 0, latestBatchNumber |-> -1, sent |-> << >>,
      polled |-> FALSE, pollErr |-> Nil, ret |-> Nil ]

\* the pc after the loop over txs handled index i - 1
AfterTx(txs, i) == IF i > Len(txs) THEN "poll" ELSE "send"

\* ApplyTxs, from its call to the start of the loop over txs; the test calls it on
\* a manager whose Setup succeeded (one call is followed here)
ApplyTxs(txs, initialRoot, finalRoot) ==
    /\ mgr.pc = "returned" /\ mgr.err = Nil
    /\ apply.pc = "idle"
    /\ LET a == [ IdleApply EXCEPT !.txs = txs, !.initialRoot = initialRoot,
                                   !.finalRoot = finalRoot ]
       IN \/ \E e \in { "errDialL2", "errLastBatchSeen" } :
                apply' = [ a EXCEPT !.pc = "returned", !.ret = e ]
          \/ \E n \in BatchNumbers :
                apply' = [ a EXCEPT !.pc = AfterTx(txs, 1), !.currentBatchNumber = n ]
    /\ UNCHANGED << mgr, keyVars >>

\* one iteration of the loop over txs
ApplyTxsSend ==
    /\ apply.pc = "send"
    /\ LET tx == apply.txs[apply.i]
           next == [ apply EXCEPT !.i = @ + 1, !.pc = AfterTx(apply.txs, apply.i + 1) ]
       IN IF tx.RawTx # "" /\ tx.OverwriteS = ""
          THEN IF ~DecodeHexOk(tx.RawTx)
               THEN apply' = [ apply EXCEPT !.pc = "returned", !.ret = "errDecodeHex" ]
               ELSE IF ~UnmarshalBinaryOk(tx.RawTx)
               THEN apply' = [ apply EXCEPT !.pc = "returned", !.ret = "errUnmarshal" ]
               ELSE \/ apply' = [ apply EXCEPT !.pc = "returned", !.ret = "errSendTransaction" ]
                    \/ apply' = [ next EXCEPT !.sent = Append(@, apply.i) ]
          ELSE apply' = next
    /\ UNCHANGED << mgr, keyVars >>

\* ApplyTxs returning its poll error whatever the roots are
applyTxsReturnAlways(initialRoot, finalRoot, err) == err

\* the value ApplyTxs returns once the poll returned err
applyTxsReturn(initialRoot, finalRoot, err) ==
    IF initialRoot # "" /\ finalRoot # "" /\ initialRoot # finalRoot /\ err # Nil
    THEN err
    ELSE Nil

\* ApplyTxs once its poll returned err
ApplyTxsReturned(a, err) ==
    [ a EXCEPT !.pc = "returned", !.polled = TRUE, !.pollErr = err,
               !.ret = applyTxsReturn(a.initialRoot, a.finalRoot, err) ]

\* the poll's condition: done := latestBatchNumber > currentBatchNumber
pollDone(latestBatchNumber, currentBatchNumber) ==
    latestBatchNumber > currentBatchNumber

\* one tick of the poll: the condition closure runs
ApplyTxsPollTick ==
    /\ apply.pc = "poll"
    /\ \/ apply' = ApplyTxsReturned(apply, "errLastBatchConsolidated")
       \/ \E n \in BatchNumbers :
            LET a == [ apply EXCEPT !.latestBatchNumber = n ] IN
            apply' = IF pollDone(n, apply.currentBatchNumber)
                     THEN ApplyTxsReturned(a, Nil)
                     ELSE a
    /\ UNCHANGED << mgr, keyVars >>

\* the poll's deadline passes
ApplyTxsPollTimeout ==
    /\ apply.pc = "poll"
    /\ apply' = ApplyTxsReturned(apply, "ErrTimeoutReached")
    /\ UNCHANGED << mgr, keyVars >>

OpsInit ==
    /\ mgr = NewManager
    /\ apply = IdleApply

Init == KeyInit /\ OpsInit

Next ==
    \E p \in Procs :
        \/ \E a \in Addresses : KeyEthAddrBalance(p, a)
        \/ \E a \in Addresses : KeyEthAddrNonce(p, a)
        \/ \E a \in Addresses : KeyContractCode(p, a)
        \/ \E a \in Addresses, s \in StoragePositions : KeyContractStorage(p, a, s)
        \/ keyEthAddr(p)

Spec == Init /\ [][Next]_vars

OpsNext ==
    \/ Setup_startNetwork
    \/ Setup_startProver
    \/ Setup_setUpSequencer
    \/ Setup_startCore
    \/ Setup_setSequencerChainID
    \/ Teardown
    \/ \E txs \in TxLists(MaxTxs), ir \in Roots, fr \in Roots : ApplyTxs(txs, ir, fr)
    \/ ApplyTxsSend
    \/ ApplyTxsPollTick
    \/ ApplyTxsPollTimeout

SpecOps == Init /\ [][OpsNext]_vars

-----------------------------------------------------------------------------
(* Properties of the key derivations, checked under Spec *)

SingleOps == { "balance", "nonce", "code" }

\* the oracle's answer to in, once it has been asked
Lookup(in) == IF in \in DOMAIN oracle THEN oracle[in] ELSE [ h4 |-> ZeroH4, err |-> "unasked" ]

\* the address part of a key1: the address's chunks in slots 0..4
AddrSlotsOk(input, ethAddr) ==
    \A i \in 1..5 : input[i] = scalar2fea(SetBytes(ethAddr))[i]

\* C1: a finished balance / nonce / code derivation has called the oracle exactly
\* once, on [addr[0..4], 0, leafTag, 0] (leafTag 0, 1, 2) with the default capacity
\* parsed from the seed, and on success returns the serialization of that digest;
\* before keyEthAddr runs it has made no oracle call.
C1_SingleStageCall ==
    \A p \in Procs :
        frame[p].op \in SingleOps =>
            /\ pc[p] = "keyEthAddr" => frame[p].calls = << >>
            /\ pc[p] = "done" =>
                /\ Len(frame[p].calls) = 1
                /\ LET c == frame[p].calls[1]
                       tag == CASE frame[p].op = "balance" -> 0
                                [] frame[p].op = "nonce" -> 1
                                [] frame[p].op = "code" -> 2
                   IN /\ AddrSlotsOk(c.in.input, frame[p].ethAddr)
                      /\ c.in.input[6] = << 0, 0, 0, 0 >>
                      /\ c.in.input[7] = << 0, 0, 0, tag >>
                      /\ c.in.input[8] = << 0, 0, 0, 0 >>
                      /\ Len(c.in.input) = 8
                      /\ c.in.capacity = DefaultCapacityWords
                      /\ c.out.err = Nil =>
                            frame[p].ret = [ key |-> h4ToFilledByteSlice(c.out.h4), err |-> Nil ]

\* a nonce derivation of a non-zero address and a code derivation, both returned a key
C1_Witness ==
    /\ pc["g1"] = "done" /\ frame["g1"].op = "nonce" /\ frame["g1"].ethAddr = AddrOf(1)
    /\ frame["g1"].ret.err = Nil /\ Len(frame["g1"].ret.key) = 32
    /\ pc["g2"] = "done" /\ frame["g2"].op = "code" /\ frame["g2"].ret.err = Nil

\* C2 (as claimed): every finished storage derivation has called the oracle exactly
\* twice, on (posFE, zero capacity) giving hk0 and then on ([addr[0..4], 0, 3, 0], hk0),
\* and the capacity of the second call is never the default capacity.
C2_TwoCallsNeverDefaultCapacity ==
    \A p \in Procs :
        (frame[p].op = "storage" /\ pc[p] = "done") =>
            LET cs == frame[p].calls IN
            /\ Len(cs) = 2
            /\ cs[1].in = storageHashArgs(frame[p].storagePos)
            /\ cs[2].in = keyEthAddrHashArgs(frame[p].ethAddr, leafTypeStorage, cs[1].out.h4)
            /\ cs[2].in.capacity # DefaultCapacityWords

\* C2 (amended): a storage derivation calls the oracle first on (posFE, zero
\* capacity). When that call fails the derivation has finished after this one call;
\* otherwise it makes exactly one more call, on ([addr[0..4], 0, 3, 0], hk0) with hk0
\* the first digest as capacity, and a derivation that returned a key returns the
\* serialization of the second digest. For storage position 0 the first call is on
\* the all-zero input, so that hk0 is the default capacity.
C2_StorageTwoStage ==
    \A p \in Procs :
        (frame[p].op = "storage" /\ pc[p] \in { "keyEthAddr", "done" }) =>
            LET cs == frame[p].calls
                posFE == scalar2fea(SetBytes(frame[p].storagePos))
            IN /\ Len(cs) >= 1
               /\ cs[1].in = [ input |-> posFE, capacity |-> << << 0, 0, 0, 0 >>, << 0, 0, 0, 0 >>,
                                                               << 0, 0, 0, 0 >>, << 0, 0, 0, 0 >> >> ]
               /\ pc[p] = "keyEthAddr" => (Len(cs) = 1 /\ cs[1].out.err = Nil)
               /\ pc[p] = "done" => Len(cs) = (IF cs[1].out.err = Nil THEN 2 ELSE 1)
               /\ Len(cs) = 2 =>
                    /\ cs[1].out.err = Nil
                    /\ AddrSlotsOk(cs[2].in.input, frame[p].ethAddr)
                    /\ cs[2].in.input[6] = << 0, 0, 0, 0 >>
                    /\ cs[2].in.input[7] = << 0, 0, 0, 3 >>
                    /\ cs[2].in.input[8] = << 0, 0, 0, 0 >>
                    /\ cs[2].in.capacity = cs[1].out.h4
                    /\ (\A i \in 1..8 : posFE[i] = << 0, 0, 0, 0 >>) =>
                           cs[2].in.capacity = DefaultCapacityWords
                    /\ cs[2].out.err = Nil =>
                         frame[p].ret = [ key |-> h4ToFilledByteSlice(cs[2].out.h4), err |-> Nil ]

\* a storage derivation of a non-zero address at storage position 0 returned a key:
\* its second call ran under hk0, which is the default capacity
C2_Witness ==
    /\ pc["g1"] = "done" /\ frame["g1"].op = "storage"
    /\ frame["g1"].ethAddr = AddrOf(1) /\ SetBytes(frame["g1"].storagePos) = << >>
    /\ frame["g1"].ret.err = Nil /\ Len(frame["g1"].ret.key) = 32
    /\ Len(frame["g1"].calls) = 2
    /\ frame["g1"].calls[2].in.capacity = DefaultCapacityWords

\* a position that needs more than 256 bits
OverWidth(storagePos) == Len(SetBytes(storagePos)) > 32

\* C3 (as claimed): a derivation called with an over-width input returns an
\* EncodingError and has made no oracle call.
C3_OverWidthRejected ==
    \A p \in Procs :
        (frame[p].op = "storage" /\ OverWidth(frame[p].storagePos)) =>
            /\ frame[p].calls = << >>
            /\ pc[p] = "done" => frame[p].ret = [ key |-> NoKey, err |-> "EncodingError" ]

\* C4: an oracle call that failed is the last call of its derivation (no retry, no
\* further call), and the derivation returns exactly that error and no key; a
\* storage derivation whose first call failed never makes the second.
C4_OracleErrorPropagated ==
    \A p \in Procs :
        LET cs == frame[p].calls IN
        /\ \A k \in 1..Len(cs) :
              cs[k].out.err # Nil =>
                /\ k = Len(cs)
                /\ pc[p] = "done"
                /\ frame[p].ret = [ key |-> NoKey, err |-> cs[k].out.err ]
        /\ (pc[p] = "done" /\ frame[p].ret.err = Nil) =>
              /\ Len(frame[p].ret.key) = 32
              /\ \A k \in 1..Len(cs) : cs[k].out.err = Nil
        /\ (frame[p].op = "storage" /\ Len(cs) >= 1 /\ cs[1].out.err # Nil) => Len(cs) = 1

\* one storage derivation failed at its first call, another at its second
C4_Witness ==
    /\ pc["g1"] = "done" /\ frame["g1"].op = "storage"
    /\ Len(frame["g1"].calls) = 1 /\ frame["g1"].ret.err = "errHashB"
    /\ pc["g2"] = "done" /\ frame["g2"].op = "storage"
    /\ Len(frame["g2"].calls) = 2 /\ frame["g2"].ret.err = "errHashA"

\* C5 (as claimed): the seed is parsed at most once over any sequence of calls,
\* sequential or concurrent.
C5_ParsedAtMostOnce == stringToh4Calls <= 1

\* the result of a derivation run alone against the oracle
Alone(op, ethAddr, storagePos) ==
    IF op = "storage"
    THEN LET hk0 == Lookup(storageHashArgs(storagePos)) IN
         IF hk0.err # Nil
         THEN [ key |-> NoKey, err |-> hk0.err ]
         ELSE keyEthAddrReturn(Lookup(keyEthAddrHashArgs(ethAddr, leafTypeStorage, hk0.h4)))
    ELSE keyEthAddrReturn(Lookup(keyEthAddrHashArgs(ethAddr, LeafTypeOf(op), DefaultCapacityWords)))

\* C6: whatever the other goroutines did before or during a call, the call returns
\* what it returns when run alone against the same (deterministic) oracle; two calls
\* with the same arguments return the same result.
C6_PureUnderInterleaving ==
    /\ \A p \in Procs :
          pc[p] = "done" =>
              frame[p].ret = Alone(frame[p].op, frame[p].ethAddr, frame[p].storagePos)
    /\ \A p, q \in Procs :
          ( /\ pc[p] = "done" /\ pc[q] = "done"
            /\ frame[p].op = frame[q].op
            /\ frame[p].ethAddr = frame[q].ethAddr
            /\ frame[p].storagePos = frame[q].storagePos ) =>
              frame[p].ret = frame[q].ret

\* both goroutines finished the same storage derivation and got a key
C6_Witness ==
    /\ pc["g1"] = "done" /\ pc["g2"] = "done"
    /\ frame["g1"].op = "storage" /\ frame["g2"].op = "storage"
    /\ frame["g1"].ethAddr = frame["g2"].ethAddr
    /\ frame["g1"].storagePos = frame["g2"].storagePos
    /\ frame["g1"].ret.err = Nil

\* the goroutine has made the poseidon.Hash call of keyEthAddr
MadeFinalCall(p) ==
    /\ pc[p] = "done"
    /\ Len(frame[p].calls) = (IF frame[p].op = "storage" THEN 2 ELSE 1)

FinalCall(p) == frame[p].calls[Len(frame[p].calls)]

\* C7: for one address, derivations of different leaf types pass different
\* (message, capacity) pairs to their final oracle call; if the oracle answers these
\* different inputs with different digests, the keys differ.
C7_LeafTypeSeparation ==
    \A p, q \in Procs :
        ( /\ MadeFinalCall(p) /\ MadeFinalCall(q)
          /\ frame[p].ethAddr = frame[q].ethAddr
          /\ frame[p].op # frame[q].op ) =>
            /\ FinalCall(p).in # FinalCall(q).in
            /\ ( /\ FinalCall(p).out.err = Nil /\ FinalCall(q).out.err = Nil
                 /\ FinalCall(p).out.h4 # FinalCall(q).out.h4 ) =>
                    frame[p].ret.key # frame[q].ret.key

\* balance and storage (position zero) keys of the all-zero address, both derived
C7_Witness ==
    /\ MadeFinalCall("g1") /\ MadeFinalCall("g2")
    /\ frame["g1"].op = "balance" /\ frame["g2"].op = "storage"
    /\ frame["g1"].ethAddr = AddrOf(0) /\ frame["g2"].ethAddr = AddrOf(0)
    /\ frame["g2"].storagePos = << >>
    /\ frame["g1"].ret.err = Nil /\ frame["g2"].ret.err = Nil
    /\ FinalCall("g1").out.h4 # FinalCall("g2").out.h4

\* C8 (as claimed): for one address and two different storage positions whose
\* derivations both succeed, the first-stage oracle inputs differ.
C8_StoragePositionSeparation ==
    \A p, q \in Procs :
        ( /\ pc[p] = "done" /\ pc[q] = "done"
          /\ frame[p].op = "storage" /\ frame[q].op = "storage"
          /\ frame[p].ethAddr = frame[q].ethAddr
          /\ SetBytes(frame[p].storagePos) # SetBytes(frame[q].storagePos)
          /\ frame[p].ret.err = Nil /\ frame[q].ret.err = Nil ) =>
            frame[p].calls[1].in # frame[q].calls[1].in

-----------------------------------------------------------------------------
(* Properties of the operations manager, checked under SpecOps *)

ExpectedToChange == 
    apply.initialRoot # "" /\ apply.finalRoot # "" /\ apply.initialRoot # apply.finalRoot

PollErrors == { "ErrTimeoutReached", "errLastBatchConsolidated" }

\* C9: ApplyTxs returns the poll's error only when the state is expected to change;
\* otherwise a poll error (a timeout among them) is dropped and nil returned. When the
\* state is expected to change, nil is returned only after the poll read a
\* consolidated batch number greater than the one recorded before sending.
C9_PollErrorOnlyWhenChangeExpected ==
    apply.pc = "returned" =>
        /\ apply.ret \in PollErrors => (ExpectedToChange /\ apply.polled /\ apply.ret = apply.pollErr)
        /\ (apply.polled /\ ~ExpectedToChange) => apply.ret = Nil
        /\ (apply.polled /\ ExpectedToChange) => apply.ret = apply.pollErr
        /\ (ExpectedToChange /\ apply.ret = Nil) =>
              /\ apply.polled
              /\ apply.latestBatchNumber > apply.currentBatchNumber

\* a call whose roots are equal sent a transaction, timed out and returned nil
C9_Witness ==
    /\ apply.pc = "returned" /\ apply.polled
    /\ apply.initialRoot = "root1" /\ apply.finalRoot = "root1"
    /\ Len(apply.sent) >= 1
    /\ apply.pollErr = "ErrTimeoutReached" /\ apply.ret = Nil

SetupStepsInOrder ==
    /\ Len(mgr.steps) <= Len(SetupOrder)
    /\ \A k \in 1..Len(mgr.steps) : mgr.steps[k].name = SetupOrder[k]

CmdRun(c) == \E k \in 1..Len(mgr.cmds) : mgr.cmds[k] = c

\* C10: Setup runs startNetwork, startProver, setUpSequencer, startCore,
\* setSequencerChainID in this order; no step runs after a step that failed, Setup
\* returns the first error, and the core is started (make run-core) only after the
\* network, the prover and the sequencer were set up without error. (make stop-core
\* is also run by Teardown, at any time outside Setup.)
C10_SetupOrder ==
    /\ SetupStepsInOrder
    /\ \A k \in 1..Len(mgr.steps) : mgr.steps[k].err # Nil => k = Len(mgr.steps)
    /\ mgr.pc = "returned" =>
          /\ mgr.steps # << >>
          /\ mgr.err = mgr.steps[Len(mgr.steps)].err
          /\ mgr.err = Nil => Len(mgr.steps) = Len(SetupOrder)
    /\ mgr.pc # "returned" =>
          (Len(mgr.steps) < Len(SetupOrder) /\ mgr.pc = SetupOrder[Len(mgr.steps) + 1])
    /\ CmdRun("run-core") =>
          /\ Len(mgr.steps) >= 4
          /\ \A k \in 1..3 : mgr.steps[k].err = Nil
          /\ CmdRun("poll network") /\ CmdRun("poll prover") /\ CmdRun("l1 register sequencer")

\* Setup returned the error of setUpSequencer, with network and prover up; the core
\* was not started, and Teardown then stopped the containers
C10_Witness ==
    /\ mgr.pc = "returned" /\ mgr.err = "errBalanceMismatch"
    /\ Len(mgr.steps) = 3
    /\ CmdRun("run-prover") /\ ~CmdRun("run-core")
    /\ mgr.torn /\ mgr.teardownErr = Nil /\ CmdRun("stop-core")

=============================================================================
